---- MODULE Spec2Model ----
(***************************************************************************)
(* Model of givenergy-optimizer-final.py: the GivEnergyWeatherOptimizer    *)
(* service.  One process, one thread: construction (validate_config and    *)
(* get_inverter_serial), start(), the pipeline run (get_battery_status,    *)
(* get_weather_forecast, estimate_solar_generation, the threshold rule and *)
(* one POST of the timed-charge preset) and the polling loop.              *)
(*                                                                         *)
(* Modelling conventions                                                   *)
(*  - A Python value that may be None is a record with a field `none`.     *)
(*  - An HTTP response is a record: error (the call raised), status_code   *)
(*    and the parts of the body the code reads.  JSON fields are taken     *)
(*    with the type the vendor schema gives them (percent and clouds.all   *)
(*    numbers, serial a string); any value of that type may arrive.        *)
(*  - Energy is counted in units of 1/700 kWh, so that                     *)
(*    (1 - |hour-13|/7) * (1 - clouds/100) * 3.0 is the integer            *)
(*    (7 - |hour-13|) * (100 - clouds) * 3.  The arithmetic is exact; the  *)
(*    program's is IEEE double.                                            *)
(*  - A timestamp string '%Y-%m-%d %H:%M:%S' is the tuple                  *)
(*    <<day, H tens digit, H units digit>>: the date is a day number and   *)
(*    minutes and seconds, always 00 on the forecast grid, are left out.   *)
(*  - The pass-through fields weather, description, temperature,           *)
(*    battery_power, solar_power and timestamp are read by no decision and *)
(*    are left out.                                                        *)
(***************************************************************************)
EXTENDS Integers, Sequences, FiniteSets

VARIABLES
    pc,                   \* position of the single thread
    inverter_serial,      \* self.inverter_serial
    resolved,             \* outcome of get_inverter_serial: pending, ok, failed
    serialReturned,       \* the serial the startup response carried
    resolveCalls,         \* number of calls of get_inverter_serial
    started,              \* start() has been entered
    jobRegistered,        \* schedule holds the daily 17:00 job
    jobDue,               \* the daily job is pending (17:00 has passed)
    battery_status,       \* local of decide_charging_strategy
    forecast,             \* local of decide_charging_strategy
    generation_estimates, \* local of decide_charging_strategy
    total_estimated_generation, \* local of decide_charging_strategy
    sent,                 \* payloads POSTed in the current run
    cmdOutcome,           \* outcome of the current run's POST
    everSent,             \* some payload was POSTed by this process
    guardTripped,         \* a 'without inverter serial' guard returned
    preset,               \* the device's timed-charge preset
    presetAtRunStart      \* the device's preset when the current run began

vars == <<pc, inverter_serial, resolved, serialReturned, resolveCalls, started,
          jobRegistered, jobDue, battery_status, forecast, generation_estimates,
          total_estimated_generation, sent, cmdOutcome, everSent, guardTripped,
          preset, presetAtRunStart>>

-----------------------------------------------------------------------------
(* Bounds *)

\* longest entry list of a forecast response
MaxList == 9
\* longest forecast handed to the estimator on its own
MaxLen == 2

-----------------------------------------------------------------------------
(* Program constants *)

MIN_BATTERY_LEVEL == 20
CHARGE_THRESHOLD == 3
\* forecast_data.get('list', [])[:8]
ForecastSlots == 8
\* units per kWh: the denominators 7 and 100 of the two factors
KwhScale == 7 * 100

-----------------------------------------------------------------------------
(* Python values *)

None == [none |-> TRUE]
Some(x) == [none |-> FALSE, v |-> x]

\* truth value of a str-or-None
TruthyStr(s) == IF s.none THEN FALSE ELSE s.v # ""

Abs(x) == IF x < 0 THEN -x ELSE x
Max(a, b) == IF b > a THEN b ELSE a
Min(a, b) == IF b < a THEN b ELSE a

RECURSIVE Sum(_)
Sum(s) == IF s = <<>> THEN 0 ELSE Head(s) + Sum(Tail(s))

SeqsUpTo(S, n) == UNION {[1..k -> S] : k \in 0..n}

-----------------------------------------------------------------------------
(* Timestamps *)

UtcOffsets == {0, 1}

\* datetime.fromtimestamp(item['dt'], self.timezone): dt in hours since the
\* epoch, off the zone's UTC offset in hours at that instant
fromtimestamp(dt, off) == [day |-> (dt + off) \div 24, hour |-> (dt + off) % 24]

\* dt.strftime('%Y-%m-%d %H:%M:%S')
strftime(d) == <<d.day, d.hour \div 10, d.hour % 10>>

\* datetime.strptime(s, '%Y-%m-%d %H:%M:%S')
strptime(s) == [day |-> s[1], hour |-> s[2] * 10 + s[3]]

-----------------------------------------------------------------------------
(* Identity Resolver: get_inverter_serial *)

SerialValues == {"CE2146G123", ""}

SerialResponses ==
    {[error |-> TRUE, status_code |-> 0, has_serial |-> FALSE, serial |-> ""]}
    \cup {[error |-> FALSE, status_code |-> 404, has_serial |-> FALSE, serial |-> ""]}
    \cup {[error |-> FALSE, status_code |-> 200, has_serial |-> FALSE, serial |-> ""]}
    \cup {[error |-> FALSE, status_code |-> 200, has_serial |-> TRUE, serial |-> s] :
             s \in SerialValues}

\* TRUE when get_inverter_serial raises on response r
get_inverter_serial_raises(r) ==
    IF r.error THEN TRUE
    ELSE IF r.status_code = 200 THEN ~r.has_serial
    ELSE TRUE

-----------------------------------------------------------------------------
(* State Fetcher: get_battery_status *)

BatteryLevels == {0, 15, 20, 50}

BatteryResponses ==
    {[error |-> TRUE, status_code |-> 0, has_percent |-> FALSE, percent |-> 0]}
    \cup {[error |-> FALSE, status_code |-> 500, has_percent |-> FALSE, percent |-> 0]}
    \cup {[error |-> FALSE, status_code |-> 200, has_percent |-> FALSE, percent |-> 0]}
    \cup {[error |-> FALSE, status_code |-> 200, has_percent |-> TRUE, percent |-> p] :
             p \in BatteryLevels}

\* the value get_battery_status returns with the serial `serial` cached and the
\* GET answered by r (no GET is made when the serial is falsy)
get_battery_status(serial, r) ==
    IF ~TruthyStr(serial) THEN None
    ELSE IF r.error THEN None
    ELSE IF r.status_code = 200
         THEN IF r.has_percent
              THEN [none |-> FALSE, battery_level |-> r.percent]
              ELSE None
         ELSE None

-----------------------------------------------------------------------------
(* Forecast Fetcher: get_weather_forecast *)

ForecastItems == {[dt |-> 13, clouds |-> 50], [dt |-> 26, clouds |-> 0]}

ForecastResponses ==
    {[error |-> TRUE, status_code |-> 0, malformed |-> FALSE, list |-> <<>>]}
    \cup {[error |-> FALSE, status_code |-> 500, malformed |-> FALSE, list |-> <<>>]}
    \cup {[error |-> FALSE, status_code |-> 200, malformed |-> TRUE, list |-> <<>>]}
    \cup {[error |-> FALSE, status_code |-> 200, malformed |-> FALSE, list |-> l] :
             l \in SeqsUpTo(ForecastItems, MaxList)}

\* one entry of processed_forecast
process_item(item, off) ==
    [datetime |-> strftime(fromtimestamp(item.dt, off)), clouds |-> item.clouds]

\* the value get_weather_forecast returns on response r: raise_for_status and
\* every parsing error end in `return None`
get_weather_forecast(r, off) ==
    IF r.error \/ r.status_code >= 400 \/ r.malformed THEN None
    ELSE LET first == SubSeq(r.list, 1, Min(ForecastSlots, Len(r.list)))
         IN  [none |-> FALSE,
              entries |-> [i \in 1..Len(first) |-> process_item(first[i], off)]]

\* `forecast is None` in place of `not forecast`
forecast_is_none(f) == f.none

\* `not forecast` for a list-or-None
falsy_forecast(f) == IF f.none THEN TRUE ELSE f.entries = <<>>

-----------------------------------------------------------------------------
(* Generation Estimator: estimate_solar_generation *)

\* the triangle peaking at noon instead of 13:00
daylight_factor_noon(hour) ==
    IF 6 <= hour /\ hour < 20 THEN 7 - Abs(hour - 12) ELSE 0

\* 7 * daylight_factor
daylight_factor(hour) ==
    IF 6 <= hour /\ hour < 20 THEN 7 - Abs(hour - 13) ELSE 0

\* clouds / 100 as an integer division
cloud_factor_intdiv(clouds) == 100 - 100 * (clouds \div 100)

\* 100 * cloud_factor
cloud_factor(clouds) == 100 - clouds

\* the estimate without its floor at 0
estimated_kwh_unclamped(entry) ==
    daylight_factor(strptime(entry.datetime).hour) * cloud_factor(entry.clouds) * 3

\* max(0, estimated_kwh) of one entry, in 1/700 kWh
estimated_kwh(entry) ==
    Max(0, daylight_factor(strptime(entry.datetime).hour)
             * cloud_factor(entry.clouds) * 3)

estimate_solar_generation(f) ==
    IF falsy_forecast(f) THEN <<>>
    ELSE [i \in 1..Len(f.entries) |->
             [datetime |-> f.entries[i].datetime,
              estimated_kwh |-> estimated_kwh(f.entries[i]),
              clouds |-> f.entries[i].clouds]]

-----------------------------------------------------------------------------
(* Charge Scheduler: the rule and the two payloads *)

\* the rule with <= for <
should_charge_le(total, level) ==
    total <= CHARGE_THRESHOLD * KwhScale /\ level <= MIN_BATTERY_LEVEL

\* line 209
should_charge(total, level) ==
    total < CHARGE_THRESHOLD * KwhScale /\ level < MIN_BATTERY_LEVEL

charge_start == <<"0", "1", ":", "3", "0", ":", "0", "0">>
charge_end == <<"0", "5", ":", "3", "0", ":", "0", "0">>
midnight == <<"0", "0", ":", "0", "0">>

\* s[:5]
HHMM(s) == SubSeq(s, 1, Min(5, Len(s)))

schedule_payload ==
    [enabled |-> TRUE,
     slots |-> <<[start_time |-> HHMM(charge_start),
                  end_time |-> HHMM(charge_end),
                  percent_limit |-> 100]>>]

\* the disable payload with an empty slot list
cancel_payload_noslots == [enabled |-> FALSE, slots |-> <<>>]

cancel_payload ==
    [enabled |-> FALSE,
     slots |-> <<[start_time |-> midnight,
                  end_time |-> midnight,
                  percent_limit |-> 100]>>]

\* the POST's outcomes: a transport error may strike before or after the
\* device applied the preset
PostResponses ==
    {[error |-> TRUE, status_code |-> 0, applied |-> a] : a \in BOOLEAN}
    \cup {[error |-> FALSE, status_code |-> c, applied |-> TRUE] : c \in {200, 201}}
    \cup {[error |-> FALSE, status_code |-> 400, applied |-> FALSE]}

\* what schedule_overnight_charge / cancel_overnight_charge make of response r
post_outcome(r) ==
    IF r.error THEN "error"
    ELSE IF r.status_code \in {200, 201} THEN "ok"
    ELSE "rejected"

\* presets the device may hold before the process starts
DevicePresets ==
    {cancel_payload,
     [enabled |-> TRUE,
      slots |-> <<[start_time |-> <<"0", "0", ":", "3", "0">>,
                   end_time |-> <<"0", "4", ":", "3", "0">>,
                   percent_limit |-> 80]>>]}

-----------------------------------------------------------------------------
(* The process *)

RunLocalsCleared ==
    /\ battery_status' = None
    /\ forecast' = None
    /\ generation_estimates' = <<>>
    /\ total_estimated_generation' = 0

\* run_daily_check is entered: nothing fetched, nothing sent yet
BeginRun ==
    /\ pc' = "battery"
    /\ RunLocalsCleared
    /\ sent' = <<>>
    /\ cmdOutcome' = "none"
    /\ presetAtRunStart' = preset

Init ==
    /\ pc = "main"
    /\ inverter_serial = None
    /\ resolved = "pending"
    /\ serialReturned = None
    /\ resolveCalls = 0
    /\ started = FALSE
    /\ jobRegistered = FALSE
    /\ jobDue = FALSE
    /\ battery_status = None
    /\ forecast = None
    /\ generation_estimates = <<>>
    /\ total_estimated_generation = 0
    /\ sent = <<>>
    /\ cmdOutcome = "none"
    /\ everSent = FALSE
    /\ guardTripped = FALSE
    /\ preset \in DevicePresets
    /\ presetAtRunStart = preset

\* get_inverter_serial logging its error without the `raise`
ConstructSwallow ==
    /\ pc = "main"
    /\ \E config_missing \in BOOLEAN, r \in SerialResponses :
          IF config_missing
          THEN /\ pc' = "exited"
               /\ UNCHANGED <<inverter_serial, resolved, serialReturned, resolveCalls>>
          ELSE /\ resolveCalls' = resolveCalls + 1
               /\ pc' = "constructed"
               /\ IF get_inverter_serial_raises(r)
                  THEN /\ resolved' = "failed"
                       /\ UNCHANGED <<inverter_serial, serialReturned>>
                  ELSE /\ resolved' = "ok"
                       /\ inverter_serial' = Some(r.serial)
                       /\ serialReturned' = Some(r.serial)
    /\ UNCHANGED <<started, jobRegistered, jobDue, battery_status, forecast,
                   generation_estimates, total_estimated_generation, sent,
                   cmdOutcome, everSent, guardTripped, preset, presetAtRunStart>>

\* optimizer = GivEnergyWeatherOptimizer(): validate_config, then
\* get_inverter_serial; an exception leaves __init__ and, through the handler
\* of __main__, the process
Construct ==
    /\ pc = "main"
    /\ \E config_missing \in BOOLEAN, r \in SerialResponses :
          IF config_missing
          THEN /\ pc' = "exited"
               /\ UNCHANGED <<inverter_serial, resolved, serialReturned, resolveCalls>>
          ELSE /\ resolveCalls' = resolveCalls + 1
               /\ IF get_inverter_serial_raises(r)
                  THEN /\ pc' = "exited"
                       /\ resolved' = "failed"
                       /\ UNCHANGED <<inverter_serial, serialReturned>>
                  ELSE /\ pc' = "constructed"
                       /\ resolved' = "ok"
                       /\ inverter_serial' = Some(r.serial)
                       /\ serialReturned' = Some(r.serial)
    /\ UNCHANGED <<started, jobRegistered, jobDue, battery_status, forecast,
                   generation_estimates, total_estimated_generation, sent,
                   cmdOutcome, everSent, guardTripped, preset, presetAtRunStart>>

\* optimizer.start(): the run at startup
Start ==
    /\ pc = "constructed"
    /\ started' = TRUE
    /\ BeginRun
    /\ UNCHANGED <<inverter_serial, resolved, serialReturned, resolveCalls,
                   jobRegistered, jobDue, everSent, guardTripped, preset>>

\* decide_charging_strategy without the early return on an absent status
GetBatteryStatusNoReturn ==
    /\ pc = "battery"
    /\ \E r \in BatteryResponses :
          battery_status' = get_battery_status(inverter_serial, r)
    /\ pc' = "forecast"
    /\ guardTripped' = (guardTripped \/ ~TruthyStr(inverter_serial))
    /\ UNCHANGED <<inverter_serial, resolved, serialReturned, resolveCalls,
                   started, jobRegistered, jobDue, forecast, generation_estimates,
                   total_estimated_generation, sent, cmdOutcome, everSent,
                   preset, presetAtRunStart>>

\* battery_status = self.get_battery_status(); if not battery_status: return
GetBatteryStatus ==
    /\ pc = "battery"
    /\ \E r \in BatteryResponses :
          /\ battery_status' = get_battery_status(inverter_serial, r)
          /\ pc' = IF battery_status'.none THEN "returned" ELSE "forecast"
    /\ guardTripped' = (guardTripped \/ ~TruthyStr(inverter_serial))
    /\ UNCHANGED <<inverter_serial, resolved, serialReturned, resolveCalls,
                   started, jobRegistered, jobDue, forecast, generation_estimates,
                   total_estimated_generation, sent, cmdOutcome, everSent,
                   preset, presetAtRunStart>>

\* forecast = self.get_weather_forecast(); if not forecast: return
GetWeatherForecast ==
    /\ pc = "forecast"
    /\ \E r \in ForecastResponses, off \in UtcOffsets :
          /\ forecast' = get_weather_forecast(r, off)
          /\ pc' = IF falsy_forecast(forecast') THEN "returned" ELSE "decide"
    /\ UNCHANGED <<inverter_serial, resolved, serialReturned, resolveCalls,
                   started, jobRegistered, jobDue, battery_status,
                   generation_estimates, total_estimated_generation, sent,
                   cmdOutcome, everSent, guardTripped, preset, presetAtRunStart>>

\* the POST outside any try: a transport error leaves the run and the process
DecideRaises ==
    /\ pc = "decide"
    /\ generation_estimates' = estimate_solar_generation(forecast)
    /\ total_estimated_generation' =
          Sum([i \in 1..Len(generation_estimates') |->
                  generation_estimates'[i].estimated_kwh])
    /\ LET payload ==
              IF should_charge(total_estimated_generation',
                               battery_status.battery_level)
              THEN schedule_payload
              ELSE cancel_payload
       IN  \E r \in PostResponses :
              /\ sent' = Append(sent, payload)
              /\ everSent' = TRUE
              /\ cmdOutcome' = post_outcome(r)
              /\ preset' = IF r.applied THEN payload ELSE preset
              /\ pc' = IF r.error THEN "exited" ELSE "returned"
    /\ UNCHANGED <<inverter_serial, resolved, serialReturned, resolveCalls,
                   started, jobRegistered, jobDue, battery_status, forecast,
                   guardTripped, presetAtRunStart>>

\* lines 201-214: the estimate, the sum, the rule, and schedule_overnight_charge
\* or cancel_overnight_charge with its POST
Decide ==
    /\ pc = "decide"
    /\ generation_estimates' = estimate_solar_generation(forecast)
    /\ total_estimated_generation' =
          Sum([i \in 1..Len(generation_estimates') |->
                  generation_estimates'[i].estimated_kwh])
    /\ LET payload ==
              IF should_charge(total_estimated_generation',
                               battery_status.battery_level)
              THEN schedule_payload
              ELSE cancel_payload
       IN  IF ~TruthyStr(inverter_serial)
           THEN /\ guardTripped' = TRUE
                /\ UNCHANGED <<sent, cmdOutcome, everSent, preset>>
           ELSE \E r \in PostResponses :
                   /\ sent' = Append(sent, payload)
                   /\ everSent' = TRUE
                   /\ cmdOutcome' = post_outcome(r)
                   /\ preset' = IF r.applied THEN payload ELSE preset
                   /\ UNCHANGED guardTripped
    /\ pc' = "returned"
    /\ UNCHANGED <<inverter_serial, resolved, serialReturned, resolveCalls,
                   started, jobRegistered, jobDue, battery_status, forecast,
                   presetAtRunStart>>

\* run_daily_check returns: to start() at line 313 after the startup run, to
\* the loop's time.sleep after a scheduled run
ReturnFromRun ==
    /\ pc = "returned"
    /\ pc' = IF jobRegistered THEN "sleep" ELSE "register"
    /\ RunLocalsCleared
    /\ UNCHANGED <<inverter_serial, resolved, serialReturned, resolveCalls,
                   started, jobRegistered, jobDue, sent, cmdOutcome, everSent,
                   guardTripped, preset, presetAtRunStart>>

\* schedule.every().day.at("17:00").do(self.run_daily_check)
RegisterJob ==
    /\ pc = "register"
    /\ jobRegistered' = TRUE
    /\ pc' = "loop"
    /\ UNCHANGED <<inverter_serial, resolved, serialReturned, resolveCalls,
                   started, jobDue, battery_status, forecast, generation_estimates,
                   total_estimated_generation, sent, cmdOutcome, everSent,
                   guardTripped, preset, presetAtRunStart>>

\* schedule.run_pending(): runs the job when it is due
RunPending ==
    /\ pc = "loop"
    /\ IF jobRegistered /\ jobDue
       THEN /\ jobDue' = FALSE
            /\ BeginRun
       ELSE /\ pc' = "sleep"
            /\ UNCHANGED <<jobDue, battery_status, forecast, generation_estimates,
                           total_estimated_generation, sent, cmdOutcome,
                           presetAtRunStart>>
    /\ UNCHANGED <<inverter_serial, resolved, serialReturned, resolveCalls,
                   started, jobRegistered, everSent, guardTripped, preset>>

\* time.sleep(60): the clock may pass 17:00
Sleep ==
    /\ pc = "sleep"
    /\ pc' = "loop"
    /\ \E passed \in BOOLEAN : jobDue' = (jobDue \/ passed)
    /\ UNCHANGED <<inverter_serial, resolved, serialReturned, resolveCalls,
                   started, jobRegistered, battery_status, forecast,
                   generation_estimates, total_estimated_generation, sent,
                   cmdOutcome, everSent, guardTripped, preset, presetAtRunStart>>

Next ==
    \/ Construct
    \/ Start
    \/ GetBatteryStatus
    \/ GetWeatherForecast
    \/ Decide
    \/ ReturnFromRun
    \/ RegisterJob
    \/ RunPending
    \/ Sleep

Spec == Init /\ [][Next]_vars

-----------------------------------------------------------------------------
(* The Generation Estimator on its own: any forecast of up to MaxLen entries *)

CloudValues == {0, 25, 50, 100, 130}

EstimatorEntries ==
    {[datetime |-> strftime([day |-> 0, hour |-> h]), clouds |-> c] :
        h \in 0..23, c \in CloudValues}

EstInit ==
    /\ pc = "estimate"
    /\ forecast = [none |-> FALSE, entries |-> <<>>]
    /\ inverter_serial = None
    /\ resolved = "pending"
    /\ serialReturned = None
    /\ resolveCalls = 0
    /\ started = FALSE
    /\ jobRegistered = FALSE
    /\ jobDue = FALSE
    /\ battery_status = None
    /\ generation_estimates = <<>>
    /\ total_estimated_generation = 0
    /\ sent = <<>>
    /\ cmdOutcome = "none"
    /\ everSent = FALSE
    /\ guardTripped = FALSE
    /\ preset = cancel_payload
    /\ presetAtRunStart = preset

\* the caller's forecast grows by one entry, any hour and any cloud cover
AddEntry ==
    /\ pc = "estimate"
    /\ Len(forecast.entries) < MaxLen
    /\ \E e \in EstimatorEntries :
          forecast' = [none |-> FALSE, entries |-> Append(forecast.entries, e)]
    /\ UNCHANGED <<pc, inverter_serial, resolved, serialReturned, resolveCalls,
                   started, jobRegistered, jobDue, battery_status,
                   generation_estimates, total_estimated_generation, sent,
                   cmdOutcome, everSent, guardTripped, preset, presetAtRunStart>>

\* generation_estimates = self.estimate_solar_generation(forecast) and the sum
Estimate ==
    /\ pc = "estimate"
    /\ generation_estimates' = estimate_solar_generation(forecast)
    /\ total_estimated_generation' =
          Sum([i \in 1..Len(generation_estimates') |->
                  generation_estimates'[i].estimated_kwh])
    /\ pc' = "estimated"
    /\ UNCHANGED <<inverter_serial, resolved, serialReturned, resolveCalls,
                   started, jobRegistered, jobDue, battery_status, forecast,
                   sent, cmdOutcome, everSent, guardTripped, preset,
                   presetAtRunStart>>

EstNext ==
    \/ AddEntry
    \/ Estimate

EstSpec == EstInit /\ [][EstNext]_vars

-----------------------------------------------------------------------------
(* Properties *)

RunHasStatus == ~battery_status.none
RunHasForecast == IF forecast.none THEN FALSE ELSE forecast.entries # <<>>

\* C1: a run that got a battery status and a non-empty forecast sends the
\* enable command exactly when the summed estimate is strictly below
\* CHARGE_THRESHOLD and the battery level strictly below MIN_BATTERY_LEVEL, and
\* the disable command in every other case, equality included.
C1_DecisionRule ==
    (pc = "returned" /\ RunHasStatus /\ RunHasForecast) =>
        /\ Len(sent) = 1
        /\ sent[1].enabled =
              (/\ total_estimated_generation < CHARGE_THRESHOLD * KwhScale
               /\ battery_status.battery_level < MIN_BATTERY_LEVEL)
        /\ total_estimated_generation =
              Sum([i \in 1..Len(generation_estimates) |->
                      generation_estimates[i].estimated_kwh])

\* a low battery and an estimate equal to the threshold: disable
C1_Witness ==
    /\ pc = "returned"
    /\ RunHasStatus /\ RunHasForecast
    /\ battery_status.battery_level = 15
    /\ total_estimated_generation = CHARGE_THRESHOLD * KwhScale
    /\ sent = <<cancel_payload>>

RunAbortedCleanly ==
    /\ pc = "returned"
    /\ sent = <<>>
    /\ cmdOutcome = "none"
    /\ preset = presetAtRunStart

\* C2: once the State Fetcher or the Forecast Fetcher has returned an absent
\* result the run is over: it has returned normally, it has sent no command,
\* and the device's preset is the one it held when the run began.
C2_AbsentFetchAborts ==
    /\ (pc \in {"forecast", "decide", "returned"} /\ battery_status.none)
          => RunAbortedCleanly
    /\ (pc \in {"decide", "returned"} /\ forecast.none) => RunAbortedCleanly

\* the status was fetched and the forecast fetch failed
C2_Witness ==
    /\ pc = "returned"
    /\ RunHasStatus
    /\ forecast.none
    /\ sent = <<>>

\* C3 (as stated): every run in which neither fetch fails sends exactly one
\* command, whatever the length of the forecast's entry list, the empty list
\* included; no run sends more than one.
C3_Original ==
    /\ Len(sent) <= 1
    /\ (pc = "returned" /\ RunHasStatus /\ ~forecast.none) => Len(sent) = 1

\* C3 (amended): a run sends exactly one command when it got a battery status
\* and a forecast of at least one entry, and none otherwise: a forecast
\* response with an empty entry list ends the run like a failed fetch.  No run
\* sends more than one command.
C3_ExactlyOneCommand ==
    /\ Len(sent) <= 1
    /\ pc = "returned" => (Len(sent) = 1 <=> (RunHasStatus /\ RunHasForecast))

\* one command on a forecast shorter than 8 entries
C3_Witness ==
    /\ pc = "returned"
    /\ Len(sent) = 1
    /\ RunHasForecast
    /\ Len(forecast.entries) < ForecastSlots

\* C4: when get_inverter_serial failed, construction aborted: the process has
\* exited, start() was never entered, no job is registered, no command was
\* ever sent and no serial is cached.
C4_ResolverFailureAborts ==
    resolved = "failed" =>
        /\ pc = "exited"
        /\ ~started
        /\ ~jobRegistered
        /\ ~everSent
        /\ sent = <<>>
        /\ inverter_serial.none

C4_Witness == resolved = "failed" /\ pc = "exited" /\ resolveCalls = 1

C6_PayloadShape ==
    \A i \in 1..Len(sent) :
        /\ Len(sent[i].slots) = 1
        /\ sent[i].slots[1].percent_limit = 100
        /\ sent[i].enabled \in BOOLEAN
        /\ sent[i].enabled =>
              /\ sent[i].slots[1].start_time = <<"0", "1", ":", "3", "0">>
              /\ sent[i].slots[1].end_time = <<"0", "5", ":", "3", "0">>

C6_Witness ==
    /\ Len(sent) = 1
    /\ ~sent[1].enabled
    /\ Len(sent[1].slots) = 1

\* the hour a forecast entry's timestamp shows
EntryHour(e) == e.datetime[2] * 10 + e.datetime[3]

\* C7: the estimator returns one estimate per forecast entry, the i-th with
\* the i-th entry's timestamp, and no estimate is negative.
C7_OnePerEntryNonNegative ==
    pc = "estimated" =>
        /\ Len(generation_estimates) = Len(forecast.entries)
        /\ \A i \in 1..Len(generation_estimates) :
              /\ generation_estimates[i].datetime = forecast.entries[i].datetime
              /\ generation_estimates[i].estimated_kwh >= 0

\* two entries, one of them a daylight hour under more than 100% cloud
C7_Witness ==
    /\ pc = "estimated"
    /\ Len(generation_estimates) = 2
    /\ \E i \in 1..2 :
          /\ forecast.entries[i].clouds > 100
          /\ EntryHour(forecast.entries[i]) = 13
          /\ generation_estimates[i].estimated_kwh = 0

\* d of the claim, times 7
ClaimDaylight(h) == IF h < 6 \/ h >= 20 THEN 0 ELSE 7 - Abs(h - 13)

\* C8: each estimate is max(0, d * (1 - clouds/100) * 3) with d = 0 outside
\* [6,20) and d = 1 - |hour - 13|/7 inside; an entry outside [6,20) is
\* estimated at 0 whatever its clouds, and 13:00 under a clear sky at 3.0 kWh.
C8_EstimateFormula ==
    pc = "estimated" =>
        \A i \in 1..Len(generation_estimates) :
            LET h == EntryHour(forecast.entries[i])
                c == forecast.entries[i].clouds
                kwh == generation_estimates[i].estimated_kwh
            IN  /\ kwh = Max(0, ClaimDaylight(h) * (100 - c) * 3)
                /\ (h < 6 \/ h >= 20) => kwh = 0
                /\ (h = 13 /\ c = 0) => kwh = 3 * KwhScale

C8_Witness ==
    /\ pc = "estimated"
    /\ \E i \in 1..Len(generation_estimates) :
          /\ EntryHour(forecast.entries[i]) = 13
          /\ forecast.entries[i].clouds = 0
          /\ generation_estimates[i].estimated_kwh = 3 * KwhScale

\* entries i and j of the same daylight hour, j with twice i's cloud cover
DoubledClouds(i, j) ==
    /\ EntryHour(forecast.entries[i]) = EntryHour(forecast.entries[j])
    /\ EntryHour(forecast.entries[i]) \in 6..19
    /\ forecast.entries[i].clouds > 0
    /\ forecast.entries[j].clouds = 2 * forecast.entries[i].clouds
    /\ forecast.entries[j].clouds <= 100

\* C9 (as stated): doubling the cloud percentage halves the estimate.
C9_Original ==
    pc = "estimated" =>
        \A i, j \in 1..Len(generation_estimates) :
            DoubledClouds(i, j) =>
                2 * generation_estimates[j].estimated_kwh
                    = generation_estimates[i].estimated_kwh

\* C9 (amended): doubling the cloud percentage doubles what the clouds take
\* away: the estimate's shortfall from the clear-sky value 3 * d of its hour.
C9_ShortfallDoubles ==
    pc = "estimated" =>
        \A i, j \in 1..Len(generation_estimates) :
            DoubledClouds(i, j) =>
                LET clear == ClaimDaylight(EntryHour(forecast.entries[i])) * 100 * 3
                IN  clear - generation_estimates[j].estimated_kwh
                       = 2 * (clear - generation_estimates[i].estimated_kwh)

\* 13:00 at 25% and at 50% cloud: 2.25 kWh and 1.5 kWh
C9_Witness ==
    /\ pc = "estimated"
    /\ Len(generation_estimates) = 2
    /\ DoubledClouds(1, 2)
    /\ EntryHour(forecast.entries[1]) = 13
    /\ forecast.entries[1].clouds = 25
    /\ generation_estimates[1].estimated_kwh = 1575
    /\ generation_estimates[2].estimated_kwh = 1050

\* C10 (as stated): once get_inverter_serial has succeeded the cached serial
\* is a non-empty string, the one the single startup call returned, and no
\* 'without inverter serial' guard ever returns.
C10_SerialNonEmpty ==
    resolved = "ok" =>
        /\ TruthyStr(inverter_serial)
        /\ inverter_serial = serialReturned
        /\ resolveCalls = 1
        /\ ~guardTripped

====
